---------------------------- MODULE Spec2Model ----------------------------
(***************************************************************************)
(* A model of the progenitor command line tool (src/progenitor/src/main.rs)*)
(* and of the generator core it drives.                                    *)
(*                                                                         *)
(*   Spec      one run of main: Args::parse, load_api, the settings, the   *)
(*             Generator, generate_text and the writer steps.              *)
(*   SpecTS    the Type Space: get_or_create and the placeholder/backfill  *)
(*             resolution of references.                                   *)
(*   SpecTags  the grouping of compiled operations by the tag style.       *)
(***************************************************************************)
EXTENDS Integers, Sequences, FiniteSets, TLC

VARIABLES
    \* ---- one run of main ----
    cli,             \* the command line and the build (release_is_unstable)
    file,            \* the input file: NoFile (cannot be opened) or its bytes
    pc,              \* the position of main
    args,            \* Args::parse()
    api,             \* the OpenAPI value load_api returned
    parsed,          \* the parser load_api called and the bytes it was given
    include_client,  \* the local include_client
    settings,        \* the local settings (GenerationSettings)
    builder,         \* the Generator: the settings it was built with
    api_code,        \* the text generate_text returned
    fs,              \* the output file system, by path
    trace,           \* what the run has done so far, in order
    result,          \* how the run ended
    err,             \* the error the caller of main sees
    \* ---- the Type Space ----
    doc,             \* the document's schemas: reference path -> its fields
    requests,        \* how many schemas have been requested so far
    entries,         \* the TypeEntry values; a TypeId is an index
    stack,           \* the resolutions in progress, outermost first
    calls,           \* every get_or_create call made: what it was asked and gave
    handed,          \* the placeholder TypeIds handed out on re-entry
    phase,           \* "building", then "frozen"
    steps,           \* the steps the Type Space has taken
    \* ---- the tag style ----
    ops,             \* the document's operations
    tagStyle,        \* the Generator's tag style
    groups           \* the methods attached to each client group

mainVars == <<cli, file, pc, args, api, parsed, include_client, settings, builder,
              api_code, fs, trace, result, err>>

tsVars == <<doc, requests, entries, stack, calls, handed, phase, steps>>

tagVars == <<ops, tagStyle, groups>>

coreVars == <<tsVars, tagVars>>

vars == <<mainVars, tsVars, tagVars>>

---------------------------------------------------------------------------
(* Bounds and alphabets *)

\* the longest input file
MaxLen == 3

\* bytes of the input file: space, line feed, vertical tab, '{' and 'a'
Bytes == {32, 10, 11, 123, 97}

NoFile == <<-1>>

None == <<>>
Some(x) == <<x>>

RECURSIVE SeqsUpTo(_, _)
SeqsUpTo(S, n) ==
    IF n = 0 THEN {<<>>}
    ELSE LET shorter == SeqsUpTo(S, n - 1)
         IN  shorter \cup {Append(s, x) : s \in {t \in shorter : Len(t) = n - 1}, x \in S}

---------------------------------------------------------------------------
(* release_is_unstable and Args *)

\* the package version of the build (built_info::PKG_VERSION)
PKG_VERSION == "pkg_version"

release_is_unstable == cli.unstable

\* clap: --include-client defaults to release_is_unstable() when not given
ArgsParse ==
    [ input |-> "input", output |-> "root",
      output_cargo_toml |-> cli.output_cargo_toml,
      name |-> cli.name, version |-> cli.version,
      interface |-> cli.interface, tags |-> cli.tags,
      include_client |->
          IF cli.include_client = None THEN Some(release_is_unstable)
          ELSE cli.include_client ]

InterfaceStyleFrom(arg) ==
    CASE arg = "Positional" -> "InterfaceStyle::Positional"
      [] arg = "Builder" -> "InterfaceStyle::Builder"

TagStyleFromSwapped(arg) ==
    CASE arg = "Merged" -> "TagStyle::Separate"
      [] arg = "Separate" -> "TagStyle::Merged"

TagStyleFrom(arg) ==
    CASE arg = "Merged" -> "TagStyle::Merged"
      [] arg = "Separate" -> "TagStyle::Separate"

---------------------------------------------------------------------------
(* load_api *)

\* u8::is_ascii_whitespace: space, tab, line feed, form feed, carriage return
is_ascii_whitespace(b) == b \in {32, 9, 10, 12, 13}

\* The loop `while buf[0].is_ascii_whitespace() { f.read_exact(&mut buf)? }`
\* started at file position pos with buf = [b' ']: the position after the
\* byte that ended the loop, or 0 when read_exact met the end of the file.
RECURSIVE SkipWhitespace(_, _)
SkipWhitespace(bytes, pos) ==
    IF pos > Len(bytes) THEN 0
    ELSE IF is_ascii_whitespace(bytes[pos]) THEN SkipWhitespace(bytes, pos + 1)
    ELSE pos

\* `buf.as_ref().chain(f)`: the byte in buf, then the rest of the file
ReaderLosingBuf(bytes, pos) == SubSeq(bytes, pos + 1, Len(bytes))

Reader(bytes, pos) == <<bytes[pos]>> \o SubSeq(bytes, pos + 1, Len(bytes))

Parser(b) == IF b = 123 THEN "serde_json" ELSE "serde_yaml"

IoError(op) == [kind |-> "io", text |-> op, path |-> ""]
ParseError(parser) == [kind |-> "parse", text |-> parser, path |-> ""]
NoError == [kind |-> "none", text |-> "", path |-> ""]

\* load_api on file f, where the chosen parser accepts its input iff parses
LoadApi(f, parses) ==
    IF f = NoFile THEN [ok |-> FALSE, err |-> IoError("open"), parser |-> "", input |-> <<>>]
    ELSE LET pos == SkipWhitespace(f, 1)
         IN  IF pos = 0
             THEN [ok |-> FALSE, err |-> IoError("read_exact"), parser |-> "", input |-> <<>>]
             ELSE LET parser == Parser(f[pos])
                      input == Reader(f, pos)
                  IN  IF parses
                      THEN [ok |-> TRUE, err |-> NoError, parser |-> parser, input |-> input]
                      ELSE [ok |-> FALSE, err |-> ParseError(parser), parser |-> parser, input |-> input]

---------------------------------------------------------------------------
(* The output file system and save *)

Paths == {"root", "root/Cargo.toml", "root/src", "root/src/lib.rs",
          "root/src/progenitor_client.rs"}

Absent == [kind |-> "absent", data |-> <<>>, complete |-> FALSE]
Dir == [kind |-> "dir", data |-> <<>>, complete |-> FALSE]
FileOf(data, complete) == [kind |-> "file", data |-> data, complete |-> complete]

\* how a call of save can end: Ok, or the failure of open, write_all or flush
SaveOutcomes == {"ok", "open", "write_all", "flush"}

\* the file system after save(p, data) ended as outcome: open creates and
\* truncates the file, write_all fills it
SaveFs(files, p, data, outcome) ==
    CASE outcome = "open" -> files
      [] outcome = "write_all" -> [files EXCEPT ![p] = FileOf(<<>>, FALSE)]
      [] outcome \in {"flush", "ok"} -> [files EXCEPT ![p] = FileOf(data, TRUE)]

\* the error `?` hands on: the std::io::Error as it is, converted to anyhow
SaveErr(p, outcome) == IoError(outcome)

CreateDirErr(p) == IoError("create_dir_all")

Event(op, path, outcome) == <<op, path, outcome>>

---------------------------------------------------------------------------
(* The values the core's variables keep during a run of main, and the ones  *)
(* main's variables keep during a run of the core alone                     *)

TSIdle ==
    /\ doc = <<>>
    /\ requests = 0
    /\ entries = <<>>
    /\ stack = <<>>
    /\ calls = {}
    /\ handed = {}
    /\ phase = "idle"
    /\ steps = 0

TagsIdle ==
    /\ ops = <<>>
    /\ tagStyle = None
    /\ groups = <<>>

---------------------------------------------------------------------------
(* main *)

Init ==
    /\ cli \in [ output_cargo_toml : BOOLEAN,
                 name : {None, Some("name")},
                 version : {None, Some("version")},
                 interface : {"Positional", "Builder"},
                 tags : {"Merged", "Separate"},
                 include_client : {None, Some(TRUE), Some(FALSE)},
                 unstable : BOOLEAN ]
    /\ file \in {NoFile} \cup SeqsUpTo(Bytes, MaxLen)
    /\ pc = "parse"
    /\ args = None
    /\ api = None
    /\ parsed = None
    /\ include_client = None
    /\ settings = None
    /\ builder = None
    /\ api_code = None
    /\ fs = [p \in Paths |-> Absent]
    /\ trace = <<>>
    /\ result = "running"
    /\ err = NoError
    /\ TSIdle
    /\ TagsIdle

\* let args = Args::parse();
ParseArgs ==
    /\ pc = "parse"
    /\ args' = Some(ArgsParse)
    /\ pc' = "load"
    /\ UNCHANGED <<coreVars, cli, file, api, parsed, include_client, settings, builder, api_code,
                   fs, trace, result, err>>

\* let api = load_api(&args.input)?;
LoadApiStep ==
    /\ pc = "load"
    /\ \E parses \in BOOLEAN :
         LET r == LoadApi(file, parses)
         IN  /\ trace' = Append(trace, Event("load_api", r.parser, IF r.ok THEN "Ok" ELSE "Err"))
             /\ parsed' = IF r.parser = "" THEN None
                          ELSE Some([parser |-> r.parser, input |-> r.input])
             /\ IF r.ok
                THEN /\ api' = Some("api")
                     /\ pc' = "include_client"
                     /\ UNCHANGED <<result, err>>
                ELSE /\ UNCHANGED api
                     /\ pc' = "exit"
                     /\ result' = "Err"
                     /\ err' = r.err
    /\ UNCHANGED <<coreVars, cli, file, args, include_client, settings, builder, api_code, fs>>

\* let include_client = match args.include_client { ... };
IncludeClient(a) ==
    CASE a.include_client = Some(TRUE) -> TRUE
      [] a.include_client = Some(FALSE) -> FALSE
      [] a.include_client = None -> TRUE

IncludeClientStep ==
    /\ pc = "include_client"
    /\ include_client' = Some(IncludeClient(args[1]))
    /\ pc' = "settings"
    /\ UNCHANGED <<coreVars, cli, file, args, api, parsed, settings, builder, api_code, fs, trace,
                   result, err>>

\* GenerationSettings::default()
DefaultSettings ==
    [client |-> None, interface |-> "InterfaceStyle::Positional",
     tag |-> "TagStyle::Merged"]

UseClientAlways(s, ic) ==
    [s EXCEPT !.client = IF release_is_unstable THEN Some("*") ELSE Some(PKG_VERSION)]

\* if !include_client { settings.use_client(...) }
UseClient(s, ic) ==
    IF ~ic
    THEN IF release_is_unstable
         THEN [s EXCEPT !.client = Some("*")]
         ELSE [s EXCEPT !.client = Some(PKG_VERSION)]
    ELSE s

SettingsStep ==
    /\ pc = "settings"
    /\ settings' = Some(UseClient(DefaultSettings, include_client[1]))
    /\ pc' = "new"
    /\ UNCHANGED <<coreVars, cli, file, args, api, parsed, include_client, builder, api_code, fs,
                   trace, result, err>>

\* Generator::new(settings.with_interface(..).with_tag(..)): the setters act on
\* settings, and the Generator keeps what it is given
GeneratorNew ==
    /\ pc = "new"
    /\ LET s == [settings[1] EXCEPT !.interface = InterfaceStyleFrom(args[1].interface),
                                    !.tag = TagStyleFrom(args[1].tags)]
       IN  /\ settings' = Some(s)
           /\ builder' = Some(s)
    /\ trace' = Append(trace, Event("Generator::new", "", "Ok"))
    /\ pc' = "generate"
    /\ UNCHANGED <<coreVars, cli, file, args, api, parsed, include_client, api_code, fs, result, err>>

BailError == [kind |-> "msg", text |-> "generation experienced errors", path |-> ""]

\* generate_text's Err arm falling through to the writer
GenerateTextErrGoesOn ==
    /\ pc = "generate"
    /\ \E ok \in BOOLEAN :
         /\ api_code' = Some("api_code")
         /\ trace' = trace \o <<Event("generate_text", "", IF ok THEN "Ok" ELSE "Err"),
                                Event("println", IF ok THEN "TYPE SPACE" ELSE "gen fail", "Ok")>>
         /\ pc' = "root"
         /\ UNCHANGED <<result, err>>
    /\ UNCHANGED <<coreVars, cli, file, args, api, parsed, include_client, settings, builder, fs>>

\* generate_text's Err arm printing the error without the bail!
GenerateTextNoBail ==
    /\ pc = "generate"
    /\ \E ok \in BOOLEAN :
         IF ok
         THEN /\ api_code' = Some("api_code")
              /\ trace' = trace \o <<Event("generate_text", "", "Ok"),
                                     Event("println", "TYPE SPACE", "Ok")>>
              /\ pc' = "root"
         ELSE /\ trace' = trace \o <<Event("generate_text", "", "Err"),
                                     Event("println", "gen fail", "Ok")>>
              /\ pc' = "return"
              /\ UNCHANGED api_code
    /\ UNCHANGED <<coreVars, cli, file, args, api, parsed, include_client, settings, builder, fs,
                   result, err>>

\* match builder.generate_text(&api): Ok prints the type space and goes on to
\* the writer; Err prints the error and bails
GenerateText ==
    /\ pc = "generate"
    /\ \E ok \in BOOLEAN :
         IF ok
         THEN /\ api_code' = Some("api_code")
              /\ trace' = trace \o <<Event("generate_text", "", "Ok"),
                                     Event("println", "TYPE SPACE", "Ok")>>
              /\ pc' = "root"
              /\ UNCHANGED <<result, err>>
         ELSE /\ trace' = trace \o <<Event("generate_text", "", "Err"),
                                     Event("println", "gen fail", "Ok")>>
              /\ pc' = "exit"
              /\ result' = "Err"
              /\ err' = BailError
              /\ UNCHANGED api_code
    /\ UNCHANGED <<coreVars, cli, file, args, api, parsed, include_client, settings, builder, fs>>

\* std::fs::create_dir_all(&root)?;
CreateRoot ==
    /\ pc = "root"
    /\ \E ok \in BOOLEAN :
         /\ trace' = Append(trace, Event("create_dir_all", "root", IF ok THEN "Ok" ELSE "Err"))
         /\ IF ok
            THEN /\ fs' = [fs EXCEPT !["root"] = Dir]
                 /\ pc' = "toml"
                 /\ UNCHANGED <<result, err>>
            ELSE /\ pc' = "exit"
                 /\ result' = "Err"
                 /\ err' = CreateDirErr("root")
                 /\ UNCHANGED fs
    /\ UNCHANGED <<coreVars, cli, file, args, api, parsed, include_client, settings, builder, api_code>>

\* builder.dependencies(): fixed by the generator and its settings
Dependencies == <<"dependencies">>

TomlData(a) == <<"toml", a.name[1], a.version[1]>> \o Dependencies

PanicError == [kind |-> "panic", text |-> "unwrap on None", path |-> ""]

\* Cargo.toml written without looking at output_cargo_toml
CargoTomlIgnoringFlag ==
    /\ pc = "toml"
    /\ IF args[1].name = None \/ args[1].version = None
       THEN /\ pc' = "exit"
            /\ result' = "Panic"
            /\ err' = PanicError
            /\ trace' = Append(trace, Event("unwrap", IF args[1].name = None THEN "name" ELSE "version", "Panic"))
            /\ UNCHANGED fs
       ELSE \E outcome \in SaveOutcomes :
            /\ fs' = SaveFs(fs, "root/Cargo.toml", TomlData(args[1]), outcome)
            /\ trace' = Append(trace, Event("save", "root/Cargo.toml", outcome))
            /\ IF outcome = "ok"
               THEN /\ pc' = "src"
                    /\ UNCHANGED <<result, err>>
               ELSE /\ pc' = "exit"
                    /\ result' = "Err"
                    /\ err' = SaveErr("root/Cargo.toml", outcome)
    /\ UNCHANGED <<coreVars, cli, file, args, api, parsed, include_client, settings, builder, api_code>>

\* if args.output_cargo_toml { name.unwrap(); version.unwrap(); save(&toml, ..)? }
CargoToml ==
    /\ pc = "toml"
    /\ IF ~args[1].output_cargo_toml
       THEN /\ pc' = "src"
            /\ UNCHANGED <<fs, trace, result, err>>
       ELSE IF args[1].name = None \/ args[1].version = None
       THEN /\ pc' = "exit"
            /\ result' = "Panic"
            /\ err' = PanicError
            /\ trace' = Append(trace, Event("unwrap", IF args[1].name = None THEN "name" ELSE "version", "Panic"))
            /\ UNCHANGED fs
       ELSE \E outcome \in SaveOutcomes :
            /\ fs' = SaveFs(fs, "root/Cargo.toml", TomlData(args[1]), outcome)
            /\ trace' = Append(trace, Event("save", "root/Cargo.toml", outcome))
            /\ IF outcome = "ok"
               THEN /\ pc' = "src"
                    /\ UNCHANGED <<result, err>>
               ELSE /\ pc' = "exit"
                    /\ result' = "Err"
                    /\ err' = SaveErr("root/Cargo.toml", outcome)
    /\ UNCHANGED <<coreVars, cli, file, args, api, parsed, include_client, settings, builder, api_code>>

\* std::fs::create_dir_all(&src)?;
CreateSrc ==
    /\ pc = "src"
    /\ \E ok \in BOOLEAN :
         /\ trace' = Append(trace, Event("create_dir_all", "root/src", IF ok THEN "Ok" ELSE "Err"))
         /\ IF ok
            THEN /\ fs' = [fs EXCEPT !["root/src"] = Dir]
                 /\ pc' = "librs"
                 /\ UNCHANGED <<result, err>>
            ELSE /\ pc' = "exit"
                 /\ result' = "Err"
                 /\ err' = CreateDirErr("root/src")
                 /\ UNCHANGED fs
    /\ UNCHANGED <<coreVars, cli, file, args, api, parsed, include_client, settings, builder, api_code>>

\* format!("mod progenitor_client;\n\n{}", api_code)
LibCode(code) == <<"mod progenitor_client;", code>>

\* save(librs, lib_code.as_str())?;
SaveLibRs ==
    /\ pc = "librs"
    /\ \E outcome \in SaveOutcomes :
         /\ fs' = SaveFs(fs, "root/src/lib.rs", LibCode(api_code[1]), outcome)
         /\ trace' = Append(trace, Event("save", "root/src/lib.rs", outcome))
         /\ IF outcome = "ok"
            THEN /\ pc' = "clientrs"
                 /\ UNCHANGED <<result, err>>
            ELSE /\ pc' = "exit"
                 /\ result' = "Err"
                 /\ err' = SaveErr("root/src/lib.rs", outcome)
    /\ UNCHANGED <<coreVars, cli, file, args, api, parsed, include_client, settings, builder, api_code>>

\* match include_client { true => progenitor_client::code(), false => quote!{..} }
ClientCode(ic) ==
    IF ic THEN <<"progenitor_client::code()">>
    ELSE <<"pub use progenitor_client::{ByteStream, ResponseValue, Error, RequestBuilderExt, encode_path};">>

\* save(clientrs, &progenitor_client_code)?;
SaveClientRs ==
    /\ pc = "clientrs"
    /\ \E outcome \in SaveOutcomes :
         /\ fs' = SaveFs(fs, "root/src/progenitor_client.rs", ClientCode(include_client[1]), outcome)
         /\ trace' = Append(trace, Event("save", "root/src/progenitor_client.rs", outcome))
         /\ IF outcome = "ok"
            THEN /\ pc' = "return"
                 /\ UNCHANGED <<result, err>>
            ELSE /\ pc' = "exit"
                 /\ result' = "Err"
                 /\ err' = SaveErr("root/src/progenitor_client.rs", outcome)
    /\ UNCHANGED <<coreVars, cli, file, args, api, parsed, include_client, settings, builder, api_code>>

\* Ok(())
ReturnOk ==
    /\ pc = "return"
    /\ pc' = "exit"
    /\ result' = "Ok"
    /\ UNCHANGED <<coreVars, cli, file, args, api, parsed, include_client, settings, builder,
                   api_code, fs, trace, err>>

\* the exit status of the process: 0 for Ok, 1 for Err, 101 for a panic
ExitStatus ==
    CASE result = "Ok" -> 0
      [] result = "Err" -> 1
      [] result = "Panic" -> 101
      [] OTHER -> -1

Next ==
    \/ ParseArgs
    \/ LoadApiStep
    \/ IncludeClientStep
    \/ SettingsStep
    \/ GeneratorNew
    \/ GenerateText
    \/ CreateRoot
    \/ CargoToml
    \/ CreateSrc
    \/ SaveLibRs
    \/ SaveClientRs
    \/ ReturnOk

Spec == Init /\ [][Next]_vars


---------------------------------------------------------------------------
(* The Type Space (spec.md 3 and 4.1) *)

\* the most fields a schema has
MaxFields == 2

\* the most schemas requested from one Type Space
MaxRequests == 2

\* the reference paths of the document's schemas
SchemaNames == {"A", "B"}

Primitives == {"integer"}

\* a field is a primitive or a $ref to a schema of the document
FieldTypes == Primitives \cup SchemaNames

\* the inline anonymous object schema operations carry
InlineObject == <<"integer">>

IdleCli ==
    [ output_cargo_toml |-> FALSE, name |-> None, version |-> None,
      interface |-> "Positional", tags |-> "Merged",
      include_client |-> None, unstable |-> FALSE ]

MainIdle ==
    /\ file = NoFile
    /\ pc = "idle"
    /\ api = None
    /\ parsed = None
    /\ include_client = None
    /\ settings = None
    /\ builder = None
    /\ api_code = None
    /\ fs = [p \in Paths |-> Absent]
    /\ trace = <<>>
    /\ result = "running"
    /\ err = NoError

\* TypeEntry: Primitive(kind), Struct{fields}, and the placeholder, which is
\* Unresolved until its referent is filled in
PrimitiveEntry(k) ==
    [kind |-> "Primitive", ref |-> "", prim |-> k, fields |-> <<>>, referent |-> 0]
StructEntry(ids) ==
    [kind |-> "Struct", ref |-> "", prim |-> "", fields |-> ids, referent |-> 0]
PlaceholderEntry(r) ==
    [kind |-> "Placeholder", ref |-> r, prim |-> "", fields |-> <<>>, referent |-> 0]

Unresolved(e) == e.kind = "Placeholder" /\ e.referent = 0

\* the structural fingerprint: the kind and the children's fingerprints, a
\* placeholder child standing for its reference path (the cycle is cut there)
RECURSIVE Fingerprint(_, _)
Fingerprint(ents, e) ==
    CASE e.kind = "Primitive" -> <<"Primitive", e.prim, <<>>>>
      [] e.kind = "Placeholder" -> <<"Ref", e.ref, <<>>>>
      [] e.kind = "Struct" ->
            <<"Struct", "", [i \in DOMAIN e.fields |-> Fingerprint(ents, ents[e.fields[i]])]>>

\* the entries that carry fingerprint fp
WithFingerprint(ents, fp) ==
    {i \in DOMAIN ents : ents[i].kind # "Placeholder" /\ Fingerprint(ents, ents[i]) = fp}

\* get_or_create that allocates an entry on every call
GetOrCreateNoLookup(ents, shape) ==
    [id |-> Len(ents) + 1, entries |-> Append(ents, shape)]

\* get_or_create(schema) -> TypeId: the entry with the schema's fingerprint if
\* there is one, a new entry if not
GetOrCreate(ents, shape) ==
    LET hits == WithFingerprint(ents, Fingerprint(ents, shape))
    IN  IF hits # {}
        THEN [id |-> CHOOSE i \in hits : TRUE, entries |-> ents]
        ELSE [id |-> Len(ents) + 1, entries |-> Append(ents, shape)]

\* the placeholder ph is backfilled to point at the final entry id
Backfill(ents, ph, id) == [ents EXCEPT ![ph].referent = id]

\* re-entry that is never noticed
InProgressNever(stk, r) == FALSE

\* the reference path r is being resolved
InProgress(stk, r) == \E k \in DOMAIN stk : stk[k].ref = r

PlaceholderOf(stk, r) == stk[CHOOSE k \in DOMAIN stk : stk[k].ref = r].placeholder

Frame(r, ph) == [ref |-> r, placeholder |-> ph, children |-> <<>>]

\* what one get_or_create call is remembered by
Call(from, ents, shape, r) ==
    LET fp == Fingerprint(ents, shape)
    IN  [from |-> from, fp |-> fp, id |-> r.id,
         hit |-> WithFingerprint(ents, fp) # {},
         before |-> Len(ents), after |-> Len(r.entries)]

Top == stack[Len(stack)]

\* the field the innermost resolution is at, "" when it has done them all
NextField ==
    IF stack = <<>> \/ Len(Top.children) >= Len(doc[Top.ref]) THEN ""
    ELSE doc[Top.ref][Len(Top.children) + 1]

PushChild(stk, id) == [stk EXCEPT ![Len(stk)].children = Append(@, id)]

InitTS ==
    /\ cli = IdleCli
    /\ args = None
    /\ MainIdle
    /\ TagsIdle
    /\ doc \in [SchemaNames -> SeqsUpTo(FieldTypes, MaxFields)]
    /\ requests = 0
    /\ entries = <<>>
    /\ stack = <<>>
    /\ calls = {}
    /\ handed = {}
    /\ phase = "building"
    /\ steps = 0

\* a schema is requested by its $ref: its placeholder is recorded before its
\* children are resolved
TSRequestRef ==
    /\ phase = "building" /\ stack = <<>> /\ requests < MaxRequests
    /\ \E r \in SchemaNames :
         /\ entries' = Append(entries, PlaceholderEntry(r))
         /\ stack' = <<Frame(r, Len(entries) + 1)>>
    /\ requests' = requests + 1
    /\ steps' = steps + 1
    /\ UNCHANGED <<mainVars, tagVars, doc, calls, handed, phase>>

\* an inline anonymous object schema is requested: its fields, then itself
TSRequestInline ==
    /\ phase = "building" /\ stack = <<>> /\ requests < MaxRequests
    /\ LET field == GetOrCreate(entries, PrimitiveEntry(InlineObject[1]))
           shape == StructEntry(<<field.id>>)
           whole == GetOrCreate(field.entries, shape)
       IN  /\ entries' = whole.entries
           /\ calls' = calls \cup
                 {Call("inline", entries, PrimitiveEntry(InlineObject[1]), field),
                  Call("inline", field.entries, shape, whole)}
    /\ requests' = requests + 1
    /\ steps' = steps + 1
    /\ UNCHANGED <<mainVars, tagVars, doc, stack, handed, phase>>

\* the next child is a primitive
TSChildPrimitive ==
    /\ phase = "building" /\ NextField \in Primitives
    /\ LET r == GetOrCreate(entries, PrimitiveEntry(NextField))
       IN  /\ entries' = r.entries
           /\ stack' = PushChild(stack, r.id)
           /\ calls' = calls \cup {Call(Top.ref, entries, PrimitiveEntry(NextField), r)}
    /\ steps' = steps + 1
    /\ UNCHANGED <<mainVars, tagVars, doc, requests, handed, phase>>

\* the next child is a $ref that is not being resolved: it is resolved in turn
TSChildEnter ==
    /\ phase = "building" /\ NextField \in SchemaNames
    /\ ~InProgress(stack, NextField)
    /\ entries' = Append(entries, PlaceholderEntry(NextField))
    /\ stack' = Append(stack, Frame(NextField, Len(entries) + 1))
    /\ steps' = steps + 1
    /\ UNCHANGED <<mainVars, tagVars, doc, requests, calls, handed, phase>>

\* the next child re-enters a reference path that is being resolved: the
\* placeholder's TypeId is returned at once
TSChildReEnter ==
    /\ phase = "building" /\ NextField \in SchemaNames
    /\ InProgress(stack, NextField)
    /\ LET ph == PlaceholderOf(stack, NextField)
       IN  /\ stack' = PushChild(stack, ph)
           /\ handed' = handed \cup {[id |-> ph, ref |-> NextField]}
    /\ steps' = steps + 1
    /\ UNCHANGED <<mainVars, tagVars, doc, requests, entries, calls, phase>>

\* the innermost resolution has its children: get_or_create of the shape, the
\* backfill of its placeholder, and the TypeId goes to the resolution around it
TSComplete ==
    /\ phase = "building" /\ stack # <<>> /\ NextField = ""
    /\ LET shape == StructEntry(Top.children)
           r == GetOrCreate(entries, shape)
           rest == SubSeq(stack, 1, Len(stack) - 1)
       IN  /\ entries' = Backfill(r.entries, Top.placeholder, r.id)
           /\ calls' = calls \cup {Call(Top.ref, entries, shape, r)}
           /\ stack' = IF rest = <<>> THEN rest ELSE PushChild(rest, r.id)
    /\ steps' = steps + 1
    /\ UNCHANGED <<mainVars, tagVars, doc, requests, handed, phase>>

\* the Type Space is frozen; a placeholder left Unresolved is the fatal
\* InternalConsistency fault
TSFreeze ==
    /\ phase = "building" /\ stack = <<>>
    /\ phase' = IF \E i \in DOMAIN entries : Unresolved(entries[i])
                THEN "fault" ELSE "frozen"
    /\ steps' = steps + 1
    /\ UNCHANGED <<mainVars, tagVars, doc, requests, entries, stack, calls, handed>>

NextTS ==
    \/ TSRequestRef
    \/ TSRequestInline
    \/ TSChildPrimitive
    \/ TSChildEnter
    \/ TSChildReEnter
    \/ TSComplete
    \/ TSFreeze

SpecTS == InitTS /\ [][NextTS]_vars

---------------------------------------------------------------------------
(* The tag style (spec.md 4.3) *)

\* the most operations in a document
MaxOps == 2

\* the tags an operation declares, in order
TagLists == {<<>>, <<"pets">>, <<"admin">>, <<"pets", "admin">>, <<"admin", "pets">>}

\* the parameters an operation declares, by where they go
ParamLists == {<<>>, <<"path">>, <<"query", "header">>}

\* the group of the one client: the merged style's, and the default group
DefaultGroup == "Client"

Groups == {DefaultGroup, "pets", "admin"}

RangeOf(seq) == {seq[i] : i \in DOMAIN seq}

\* a parameter's binding: path-segment substitution, query key, header name
Binding(param) ==
    CASE param = "path" -> "path-segment substitution"
      [] param = "query" -> "query key"
      [] param = "header" -> "header name"

\* compile(operation) -> GeneratedMethod: the operation compiled once, its
\* tag and the tag style playing no part
Compile(k, op) ==
    [operation_id |-> k,
     bindings |-> [i \in DOMAIN op.params |-> Binding(op.params[i])],
     response |-> "response type"]

\* the groups a method is attached to: merged, the one client; separate, the
\* group of each tag of the operation, the default group if it has none
AttachTo(style, op) ==
    IF style = "TagStyle::Merged" THEN {DefaultGroup}
    ELSE IF op.tags = <<>> THEN {DefaultGroup}
    ELSE RangeOf(op.tags)

InitTags ==
    /\ cli \in {[IdleCli EXCEPT !.tags = t] : t \in {"Merged", "Separate"}}
    /\ args = Some(ArgsParse)
    /\ MainIdle
    /\ TSIdle
    /\ ops \in {s \in SeqsUpTo([tags : TagLists, params : ParamLists], MaxOps) : s # <<>>}
    /\ tagStyle = None
    /\ groups = [g \in Groups |-> {}]

\* settings.with_tag(args.tags.into()), and the Generator built with it
TagsNew ==
    /\ tagStyle = None /\ args # None /\ ops # <<>>
    /\ tagStyle' = Some(TagStyleFrom(args[1].tags))
    /\ UNCHANGED <<tsVars, cli, file, pc, api, parsed, include_client, settings,
                   builder, api_code, fs, trace, result, err, args, ops, groups>>

Compiled == Cardinality(UNION {{m.operation_id : m \in groups[g]} : g \in DOMAIN groups})

\* the next operation is compiled and its method attached
TagsCompile ==
    /\ tagStyle # None /\ Compiled < Len(ops)
    /\ LET k == Compiled + 1
           method == Compile(k, ops[k])
       IN  groups' = [g \in Groups |->
                        IF g \in AttachTo(tagStyle[1], ops[k])
                        THEN groups[g] \cup {method} ELSE groups[g]]
    /\ UNCHANGED <<mainVars, tsVars, ops, tagStyle>>

NextTags ==
    \/ TagsNew
    \/ TagsCompile

SpecTags == InitTags /\ [][NextTags]_vars

---------------------------------------------------------------------------
(* Reading the trace *)

IsWriter(e) == e[1] \in {"create_dir_all", "save"}

Succeeded(e) == e[3] \in {"Ok", "ok"}

Happened(op, outcome) == \E i \in DOMAIN trace : trace[i][1] = op /\ trace[i][3] = outcome

GenOk == Event("generate_text", "", "Ok")
GenErr == Event("generate_text", "", "Err")

\* the writer events of the run, in order
WriterEvents == SelectSeq(trace, IsWriter)

IsPrefix(s, t) == Len(s) <= Len(t) /\ s = SubSeq(t, 1, Len(s))

Ended == pc = "exit"

---------------------------------------------------------------------------
(* C1 *)

\* C1 (as claimed): a run of main that ends in failure has persisted nothing:
\* neither the output root, nor Cargo.toml, nor src/, src/lib.rs or
\* src/progenitor_client.rs exists after it.
C1_NoPartialPackageOnFailure ==
    (Ended /\ result # "Ok") => \A p \in Paths : fs[p] = Absent

---------------------------------------------------------------------------
(* C2 *)

\* C2: every writer action (create_dir_all, save) comes strictly after
\* generate_text returned Ok, and a run whose generate_text returned Err has
\* no writer action and leaves the file system untouched.
C2_WriterOnlyAfterGenerateOk ==
    /\ \A i \in DOMAIN trace :
         IsWriter(trace[i]) => \E j \in 1..(i - 1) : trace[j] = GenOk
    /\ (\E j \in DOMAIN trace : trace[j] = GenErr) =>
         /\ WriterEvents = <<>>
         /\ \A p \in Paths : fs[p] = Absent
    /\ (\E p \in Paths : fs[p] # Absent) => \E j \in DOMAIN trace : trace[j] = GenOk

\* a run that wrote src/lib.rs
C2_Witness ==
    /\ \E i \in DOMAIN trace : trace[i] = Event("save", "root/src/lib.rs", "ok")
    /\ fs["root/src/lib.rs"].kind = "file"

---------------------------------------------------------------------------
(* C3 *)

AsciiWhitespace == {9, 10, 12, 13, 32}

\* the positions of the file's bytes that are not ASCII whitespace
NonWhitespace(f) == {i \in DOMAIN f : f[i] \notin AsciiWhitespace}

FirstNonWhitespace(f) == CHOOSE i \in NonWhitespace(f) : \A k \in NonWhitespace(f) : i <= k

CoreEntered == \E i \in DOMAIN trace : trace[i][1] \in {"Generator::new", "generate_text"}

\* C3: once load_api has returned: a file that cannot be opened, or that is
\* empty or all whitespace, gave an error and no parser ran; otherwise the
\* parser is serde_json iff the first non-whitespace byte is '{' (serde_yaml
\* if not) and it was given the file from that byte on; and every error of
\* load_api ends the run before Generator::new and generate_text.
C3_LoadApi ==
    (pc \notin {"parse", "load"}) =>
        /\ (file = NoFile \/ NonWhitespace(file) = {}) =>
              /\ parsed = None
              /\ Happened("load_api", "Err")
        /\ (file # NoFile /\ NonWhitespace(file) # {}) =>
              LET pos == FirstNonWhitespace(file)
              IN  /\ parsed # None
                  /\ parsed[1].parser = IF file[pos] = 123 THEN "serde_json" ELSE "serde_yaml"
                  /\ parsed[1].input = SubSeq(file, pos, Len(file))
        /\ Happened("load_api", "Err") =>
              /\ Ended /\ result = "Err" /\ api = None
              /\ ~CoreEntered
        /\ CoreEntered => Happened("load_api", "Ok") /\ api # None

\* a file with whitespace before a '{' and a byte after it, parsed as JSON
C3_Witness ==
    /\ pc \notin {"parse", "load"}
    /\ file # NoFile /\ Len(file) = 3
    /\ file[1] \in AsciiWhitespace /\ file[2] = 123
    /\ parsed # None /\ parsed[1].parser = "serde_json"

---------------------------------------------------------------------------
(* C4 *)

Resolved == {i \in DOMAIN entries : entries[i].kind # "Placeholder"}

\* C4: after any sequence of get_or_create calls there is at most one
\* TypeEntry per fingerprint; calls asked the same fingerprint, from whichever
\* reference path or inline schema, gave the same TypeId; a call that hit an
\* existing fingerprint allocated nothing; and the TypeId a call gave still
\* carries the fingerprint it was asked.
C4_OneEntryPerFingerprint ==
    /\ \A i, j \in Resolved :
         Fingerprint(entries, entries[i]) = Fingerprint(entries, entries[j]) => i = j
    /\ \A c, d \in calls : c.fp = d.fp => c.id = d.id
    /\ \A c \in calls :
         /\ c.hit => (c.after = c.before /\ c.id <= c.before)
         /\ c.id \in Resolved
         /\ Fingerprint(entries, entries[c.id]) = c.fp

\* the same struct was asked from two different places, the second a hit
C4_Witness ==
    \E c, d \in calls :
        /\ c.fp = d.fp /\ c.fp[1] = "Struct"
        /\ c.from # d.from
        /\ ~c.hit /\ d.hit

---------------------------------------------------------------------------
(* C5 *)

OnStack(i) == \E k \in DOMAIN stack : stack[k].placeholder = i

C5_Placeholders ==
    \* no reference path is being resolved twice: the recursion is bounded
    /\ \A k, l \in DOMAIN stack : stack[k].ref = stack[l].ref => k = l
    /\ Len(stack) <= Cardinality(SchemaNames)
    \* a placeholder is Unresolved exactly while its resolution is going on
    /\ \A i \in DOMAIN entries :
         entries[i].kind = "Placeholder" => (Unresolved(entries[i]) <=> OnStack(i))
    \* a backfilled placeholder points at a final entry
    /\ \A i \in DOMAIN entries :
         (entries[i].kind = "Placeholder" /\ ~Unresolved(entries[i])) =>
            /\ entries[i].referent \in DOMAIN entries
            /\ entries[entries[i].referent].kind = "Struct"
    \* a TypeId handed out on re-entry is the placeholder of that path
    /\ \A h \in handed :
         /\ h.id \in DOMAIN entries
         /\ entries[h.id].kind = "Placeholder" /\ entries[h.id].ref = h.ref
    /\ phase # "fault"
    /\ phase = "frozen" => \A i \in DOMAIN entries : ~Unresolved(entries[i])

\* every TypeId keeps its entry; only an Unresolved referent is filled in
C5_IdsStable ==
    \A i \in DOMAIN entries :
        /\ i \in DOMAIN entries'
        /\ \/ entries'[i] = entries[i]
           \/ /\ Unresolved(entries[i])
              /\ entries'[i] = [entries[i] EXCEPT !.referent = entries'[i].referent]
              /\ entries'[i].referent # 0

\* the steps resolving one reference takes at most, n reference paths not
\* being in progress: its placeholder, its fields, its completion
RECURSIVE ResolveSteps(_)
ResolveSteps(n) ==
    IF n <= 1 THEN 2 + MaxFields
    ELSE 2 + MaxFields * ResolveSteps(n - 1)

\* the steps a Type Space takes at most: its requests, and the freeze
StepBound == MaxRequests * ResolveSteps(Cardinality(SchemaNames)) + 1

\* the Type Space is never stuck before it is frozen, and is within its steps
C5_Terminates ==
    /\ steps <= StepBound
    /\ phase = "frozen" \/ ENABLED NextTS

\* C5: resolving a schema that refers to itself, directly or through a chain,
\* terminates (within a number of steps the document's size fixes, never
\* stuck before the freeze): a re-entered reference path gets its
\* placeholder's TypeId and is not resolved again, every placeholder is
\* backfilled when its resolution completes, every TypeId keeps denoting its
\* entry, and nothing is Unresolved once the Type Space is frozen.
C5_CyclesTerminate ==
    /\ [](C5_Placeholders /\ C5_Terminates)
    /\ [][C5_IdsStable]_vars

\* a chain A -> B -> A: B's resolution re-entered A, got A's placeholder, and
\* that placeholder is backfilled in the frozen Type Space
C5_Witness ==
    /\ phase = "frozen"
    /\ \E h \in handed :
         /\ ~Unresolved(entries[h.id])
         /\ \E c \in calls : c.from # h.ref /\ c.fp = <<"Struct", "", << <<"Ref", h.ref, <<>>>> >> >>

---------------------------------------------------------------------------
(* C6 *)

\* the operations compiled so far
Done == 1..Compiled

\* what operation k compiles to, whatever the style
MethodOf(k) ==
    [operation_id |-> k,
     bindings |-> [i \in DOMAIN ops[k].params |->
                     CASE ops[k].params[i] = "path" -> "path-segment substitution"
                       [] ops[k].params[i] = "query" -> "query key"
                       [] ops[k].params[i] = "header" -> "header name"],
     response |-> "response type"]

---------------------------------------------------------------------------
(* C7 *)

\* C7: when generate_text returned Err, main printed the error and the run
\* ended with an error, so with a non-zero exit status; and main returned Ok
\* only after generate_text returned Ok and every writer step succeeded
\* (root, src/, src/lib.rs and src/progenitor_client.rs among them).
C7_GenerateErrFails ==
    /\ (\E i \in DOMAIN trace : trace[i] = GenErr) =>
          /\ \E i \in DOMAIN trace :
                /\ trace[i] = GenErr
                /\ i < Len(trace) /\ trace[i + 1] = Event("println", "gen fail", "Ok")
          /\ Ended /\ result = "Err" /\ err = BailError
          /\ ExitStatus # 0
    /\ result = "Ok" =>
          /\ \E i \in DOMAIN trace : trace[i] = GenOk
          /\ \A i \in DOMAIN WriterEvents : Succeeded(WriterEvents[i])
          /\ \A p \in {"root", "root/src"} : fs[p] = Dir
          /\ \A p \in {"root/src/lib.rs", "root/src/progenitor_client.rs"} :
                fs[p].kind = "file" /\ fs[p].complete
          /\ ExitStatus = 0

\* a run whose generate_text returned Err
C7_Witness ==
    /\ Ended
    /\ \E i \in DOMAIN trace : trace[i] = GenErr
    /\ result = "Err"

---------------------------------------------------------------------------
(* C8 *)

\* C8 (as claimed): every I/O failure of the writer ends the run with an
\* error, and that error names the path whose operation failed.
C8_WriterErrorNamesPath ==
    (WriterEvents # <<>> /\ ~Succeeded(WriterEvents[Len(WriterEvents)])) =>
        /\ Ended /\ result = "Err"
        /\ err.path = WriterEvents[Len(WriterEvents)][2]

---------------------------------------------------------------------------
(* C9 *)

ReExport == <<"pub use progenitor_client::{ByteStream, ResponseValue, Error, RequestBuilderExt, encode_path};">>
Verbatim == <<"progenitor_client::code()">>

C9_Consistent ==
    result = "Ok" =>
        /\ include_client # None /\ builder # None
        /\ include_client[1] =>
              /\ builder[1].client = None
              /\ fs["root/src/progenitor_client.rs"] = FileOf(Verbatim, TRUE)
        /\ ~include_client[1] =>
              /\ builder[1].client = Some(IF cli.unstable THEN "*" ELSE PKG_VERSION)
              /\ fs["root/src/progenitor_client.rs"] = FileOf(ReExport, TRUE)

C9_DecidedOnce ==
    /\ include_client # None => include_client' = include_client
    /\ builder # None => (settings' = settings /\ builder' = builder)
    /\ builder' # None => include_client # None

\* C9: a successful run handled the support code in one of two ways, by
\* include_client alone: true, no client version on the settings and the
\* support module verbatim in src/progenitor_client.rs; false, the version
\* ('*' if unstable, else the package version) on the settings and only the
\* re-export in the file. include_client is fixed before Generator::new, and
\* the settings do not change after it.
C9_SupportCode == [](C9_Consistent) /\ [][C9_DecidedOnce]_vars

\* a successful run with --include-client false on a stable build
C9_Witness ==
    /\ result = "Ok"
    /\ include_client = Some(FALSE)
    /\ ~cli.unstable
    /\ fs["root/src/progenitor_client.rs"].data = ReExport

---------------------------------------------------------------------------
(* C10 *)

CargoWanted == args # None /\ args[1].output_cargo_toml

CargoArgsGiven == args # None /\ args[1].name # None /\ args[1].version # None

\* the writer steps of a full run, in order
WriterOrder(withCargo) ==
    <<"root">> \o (IF withCargo THEN <<"root/Cargo.toml">> ELSE <<>>)
        \o <<"root/src", "root/src/lib.rs", "root/src/progenitor_client.rs">>

WriterPaths == [i \in DOMAIN WriterEvents |-> WriterEvents[i][2]]

InOrder ==
    /\ IsPrefix(WriterPaths, WriterOrder(CargoWanted /\ CargoArgsGiven))
    /\ \A i \in 1..(Len(WriterEvents) - 1) : Succeeded(WriterEvents[i])

CargoWritten == fs["root/Cargo.toml"].kind = "file" /\ fs["root/Cargo.toml"].complete

NoFileWritten == \A p \in Paths : fs[p].kind # "file"

\* C10 (as claimed): after generate_text returned Ok, the writer steps come
\* in the order root, Cargo.toml, src/, src/lib.rs, src/progenitor_client.rs;
\* Cargo.toml is written iff output_cargo_toml is set and --name and
\* --version were given; and with output_cargo_toml set and one of them
\* missing the run aborts after the root was created, no file written.
C10_AsClaimed ==
    (Ended /\ \E i \in DOMAIN trace : trace[i] = GenOk) =>
        /\ InOrder
        /\ CargoWritten <=> (CargoWanted /\ CargoArgsGiven)
        /\ (CargoWanted /\ ~CargoArgsGiven) =>
              /\ result # "Ok"
              /\ fs["root"] = Dir
              /\ NoFileWritten

RootCreated == \E i \in DOMAIN trace : trace[i] = Event("create_dir_all", "root", "Ok")

CargoSaved ==
    \E i \in DOMAIN trace :
        /\ trace[i][1] = "save" /\ trace[i][2] = "root/Cargo.toml"
        /\ trace[i][3] \in {"ok", "flush"}

\* C10 (amended): after generate_text returned Ok, the writer steps come in
\* the order root, Cargo.toml, src/, src/lib.rs, src/progenitor_client.rs,
\* each after the one before it succeeded; Cargo.toml is written iff
\* output_cargo_toml is set, --name and --version were given, the root was
\* created and save opened and wrote the file; and with output_cargo_toml
\* set, one of them missing and the root created, the run aborts there, the
\* root existing and no file written.
C10_WriterOrder ==
    (Ended /\ \E i \in DOMAIN trace : trace[i] = GenOk) =>
        /\ InOrder
        /\ CargoWritten <=> (CargoWanted /\ CargoArgsGiven /\ RootCreated /\ CargoSaved)
        /\ (CargoWanted /\ CargoArgsGiven /\ RootCreated) =>
              \E i \in DOMAIN trace : trace[i][1] = "save" /\ trace[i][2] = "root/Cargo.toml"
        /\ (CargoWanted /\ ~CargoArgsGiven /\ RootCreated) =>
              /\ result = "Panic"
              /\ fs["root"] = Dir
              /\ NoFileWritten
              /\ WriterPaths = <<"root">>

\* a full run that wrote Cargo.toml and the three other steps after it
C10_Witness ==
    /\ result = "Ok"
    /\ WriterPaths = WriterOrder(TRUE)
    /\ CargoWritten

=============================================================================
